---- MODULE Spec2Model ----
(***************************************************************************)
(* Model of my_agent/autogen_agent.py: the run controller `run` (seeding   *)
(* the task from the run log, driving the team, appending the task to the  *)
(* log) and the team assembled by `build_team` (three participants, a      *)
(* text-mention termination on "TERMINATE", three selector attempts).      *)
(* The turn loop, the turn selectors and the termination policy are the    *)
(* components the team is assembled from; their step semantics follow the  *)
(* design document (sections 4.2 to 4.4).                                  *)
(* Text is a sequence of one-character strings, so that strip, join and    *)
(* substring search are computed character by character.                   *)
(***************************************************************************)
EXTENDS Integers, Sequences, FiniteSets, TLC

VARIABLES
    log_exists,     \* log_file.exists()
    log_text,       \* content of the log file
    pc,             \* position of run(): "idle" (no process) or "loop"
    task,           \* run's argument `task`
    log_file,       \* run's argument `log_file` is not None
    full_task,      \* run's local `full_task`
    selector,       \* turn selector variant of the team
    allow_repeated_speaker, \* FALSE: the repeated-speaker restriction is on
    loopState,      \* state of the conversation loop
    history,        \* History: sequence of Messages
    cursor,         \* round-robin cursor, 0-based
    current,        \* participant selected for the turn in progress
    attempts,       \* failed selector attempts of the turn in progress
    selVia,         \* how `current` was chosen: "cursor", "backend", "fallback"
    error,          \* error raised inside the loop, "none" if none
    raised,         \* what the last finished run() raised, "none" if it returned
    runs            \* finished runs, oldest first: [task, log_file, ok]

vars == <<log_exists, log_text, pc, task, log_file, full_task, selector,
          allow_repeated_speaker, loopState, history, cursor, current,
          attempts, selVia, error, raised, runs>>

(* ------------------------------ bounds -------------------------------- *)

\* runs of the program against one log file
MaxRuns == 3
\* completed turns of one run under the round-robin selector
MaxTurns == 6
\* completed turns of one run under the content-driven selector
MaxSelectorTurns == 2
\* runs of the program followed to their end under fairness (LiveSpec)
MaxLiveRuns == 1
\* length of the Histories the termination policy is applied to (PolicySpec)
MaxPolicyLen == 2

(* ------------------------------- text --------------------------------- *)

NL == "\n"

\* str.strip() strips the characters str.isspace() accepts
IsSpace(c) == c \in {" ", NL, "\t", "\r"}

RECURSIVE lstrip(_)
lstrip(s) == IF s # <<>> /\ IsSpace(Head(s)) THEN lstrip(Tail(s)) ELSE s

RECURSIVE rstrip(_)
rstrip(s) ==
    IF s # <<>> /\ IsSpace(s[Len(s)]) THEN rstrip(SubSeq(s, 1, Len(s) - 1)) ELSE s

strip(s) == rstrip(lstrip(s))

\* Python's `t in s` for strings
Contains(s, t) ==
    \E i \in 0..(Len(s) - Len(t)) : SubSeq(s, i + 1, i + Len(t)) = t

(* --------------------------- build_team ------------------------------- *)

\* the verifier and the summary participant listed the other way round
TeamSwapped ==
    <<"test_writing_assistant", "summary_agent", "verification_assistant">>

\* a team of the test writer alone
TeamOfOne == <<"test_writing_assistant">>

Team == <<"test_writing_assistant", "verification_assistant", "summary_agent">>

N == Len(Team)

Roster == {Team[i] : i \in 1..N}

\* the termination text in lower case
SentinelLowercase == <<"t", "e", "r", "m", "i", "n", "a", "t", "e">>

\* an empty termination text, which every Message mentions
SentinelEmpty == <<>>

Sentinel == <<"T", "E", "R", "M", "I", "N", "A", "T", "E">>

\* one attempt fewer
two_selector_attempts == 3 - 1

max_selector_attempts == 3

(* ---------------------- inputs of the environment --------------------- *)

Tasks ==
    { <<"A">>, <<"B">>, <<"C">> }

\* what a participant's backend may answer
Replies(p) ==
    CASE p = "test_writing_assistant" ->
            { <<"d", "r", "a", "f", "t">>,
              <<"o", "k", " ", "T", "E", "R", "M", "I", "N", "A", "T", "E">> }
      [] p = "verification_assistant" ->
            { <<"k", "e", "e", "p", " ", "g", "o", "i", "n", "g">>,
              <<"o", "k", " ", "T", "E", "R", "M", "I", "N", "A", "T", "E", ".">> }
      [] OTHER ->
            { <<"t", "e", "r", "m", "i", "n", "a", "t", "e">>,
              <<"T", "E", "R", "M", "I", "N", "A", "T", "E">> }

Errors == {"BackendUnreachable", "ToolTimeout"}

\* what the selector's backend may answer: a roster id, an unknown id, nothing
SelectorReplies == Roster \cup {"nobody", ""}

(* ------------------------ termination policy -------------------------- *)

should_stop(h) == h # <<>> /\ Contains(h[Len(h)].content, Sentinel)

(* --------------------------- turn selector ---------------------------- *)

LastSpeaker(h) == IF h = <<>> THEN "" ELSE h[Len(h)].speaker

RoundRobinSelect(c, allow, last) ==
    IF ~allow /\ Team[c + 1] = last THEN Team[((c + 1) % N) + 1] ELSE Team[c + 1]

Advance(c) == (c + 1) % N

TurnCap == IF selector = "RoundRobin" THEN MaxTurns ELSE MaxSelectorTurns

Turns == IF history = <<>> THEN 0 ELSE Len(history) - 1

(* ------------------------------- run ---------------------------------- *)

\* lines 176-178
PriorHistory(exists, text, lf) == IF lf /\ exists THEN strip(text) ELSE <<>>

\* the task joined to the prior history by a single newline
FullTaskOneNewline(prior, t) == IF prior # <<>> THEN prior \o <<NL>> \o t ELSE t

\* line 179
FullTask(prior, t) == IF prior # <<>> THEN prior \o <<NL, NL>> \o t ELSE t

\* the task written without its newline
LogLineNoNewline(t) == t

\* line 190
LogLine(t) == t \o <<NL>>

\* the team's error replaced by a generic one
SurfacedWrapped(e) == "RuntimeError"

\* lines 183-185: nothing catches what the team raises
Surfaced(e) == e

Init ==
    /\ log_exists = FALSE
    /\ log_text = <<>>
    /\ pc = "idle"
    /\ task = <<>>
    /\ log_file = FALSE
    /\ full_task = <<>>
    /\ selector \in {"RoundRobin", "Selector"}
    \* the repeated-speaker flag is an option of the round-robin selector
    /\ allow_repeated_speaker \in (IF selector = "RoundRobin" THEN BOOLEAN ELSE {TRUE})
    /\ loopState = "NONE"
    /\ history = <<>>
    /\ cursor = 0
    /\ current = ""
    /\ attempts = 0
    /\ selVia = ""
    /\ error = "none"
    /\ raised = "none"
    /\ runs = <<>>

\* run(), lines 176-182: read the log, build the task, build and reset the team
StartRunUpTo(n) ==
    /\ pc = "idle"
    /\ Len(runs) < n
    /\ \E t \in Tasks, lf \in BOOLEAN :
          /\ task' = t
          /\ log_file' = lf
          /\ full_task' = FullTask(PriorHistory(log_exists, log_text, lf), t)
    /\ pc' = "loop"
    /\ loopState' = "INIT"
    /\ history' = <<>>
    /\ cursor' = 0
    /\ current' = ""
    /\ attempts' = 0
    /\ selVia' = ""
    /\ error' = "none"
    /\ raised' = "none"
    /\ UNCHANGED <<log_exists, log_text, selector, allow_repeated_speaker, runs>>

StartRun == StartRunUpTo(MaxRuns)

\* INIT: the task becomes the first Message of History
Seed ==
    /\ pc = "loop"
    /\ loopState = "INIT"
    /\ history' = <<[speaker |-> "user", content |-> full_task]>>
    /\ loopState' = "SELECTING"
    /\ UNCHANGED <<log_exists, log_text, pc, task, log_file, full_task, selector,
                   allow_repeated_speaker, cursor, current, attempts, selVia,
                   error, raised, runs>>

\* SELECTING, fixed round-robin
SelectRoundRobin ==
    /\ loopState = "SELECTING"
    /\ selector = "RoundRobin"
    /\ Turns < TurnCap
    /\ current' = RoundRobinSelect(cursor, allow_repeated_speaker, LastSpeaker(history))
    /\ selVia' = "cursor"
    /\ loopState' = "ACTING"
    /\ UNCHANGED <<log_exists, log_text, pc, task, log_file, full_task, selector,
                   allow_repeated_speaker, history, cursor, attempts, error, raised,
                   runs>>

\* SELECTING, content-driven: one attempt at the selector's backend
SelectAttempt ==
    /\ loopState = "SELECTING"
    /\ selector = "Selector"
    /\ Turns < TurnCap
    /\ attempts < max_selector_attempts
    /\ \E r \in SelectorReplies :
          \/ /\ r \in Roster
             /\ current' = r
             /\ selVia' = "backend"
             /\ loopState' = "ACTING"
             /\ UNCHANGED attempts
          \/ /\ r \notin Roster
             /\ attempts + 1 < max_selector_attempts
             /\ attempts' = attempts + 1
             /\ UNCHANGED <<current, selVia, loopState>>
          \/ /\ r \notin Roster
             /\ attempts + 1 = max_selector_attempts
             /\ attempts' = attempts + 1
             /\ current' = Team[cursor + 1]
             /\ selVia' = "fallback"
             /\ loopState' = "ACTING"
    /\ UNCHANGED <<log_exists, log_text, pc, task, log_file, full_task, selector,
                   allow_repeated_speaker, history, cursor, error, raised, runs>>

\* ACTING: the participant answers; its Message is appended
ActOk ==
    /\ loopState = "ACTING"
    /\ \E c \in Replies(current) :
          history' = Append(history, [speaker |-> current, content |-> c])
    /\ loopState' = "CHECKING"
    /\ UNCHANGED <<log_exists, log_text, pc, task, log_file, full_task, selector,
                   allow_repeated_speaker, cursor, current, attempts, selVia,
                   error, raised, runs>>

\* ACTING: the participant's act fails
ActFail ==
    /\ loopState = "ACTING"
    /\ \E e \in Errors : error' = e
    /\ loopState' = "FAILED"
    /\ UNCHANGED <<log_exists, log_text, pc, task, log_file, full_task, selector,
                   allow_repeated_speaker, history, cursor, current, attempts,
                   selVia, raised, runs>>

\* CHECKING: the termination policy decides
Check ==
    /\ loopState = "CHECKING"
    /\ \/ /\ should_stop(history)
          /\ loopState' = "TERMINATED"
          /\ UNCHANGED <<cursor, attempts, current, selVia>>
       \/ /\ ~should_stop(history)
          /\ loopState' = "SELECTING"
          /\ cursor' = Advance(cursor)
          /\ attempts' = 0
          /\ current' = ""
          /\ selVia' = ""
    /\ UNCHANGED <<log_exists, log_text, pc, task, log_file, full_task, selector,
                   allow_repeated_speaker, history, error, raised, runs>>

\* run(), lines 187-190: the team finished, the task is appended to the log
RunReturn ==
    /\ pc = "loop"
    /\ loopState = "TERMINATED"
    /\ IF log_file
          THEN /\ log_exists' = TRUE
               /\ log_text' = log_text \o LogLine(task)
          ELSE UNCHANGED <<log_exists, log_text>>
    /\ runs' = Append(runs, [task |-> task, log_file |-> log_file, ok |-> TRUE])
    /\ raised' = "none"
    /\ pc' = "idle"
    /\ loopState' = "NONE"
    /\ history' = <<>>
    /\ task' = <<>>
    /\ full_task' = <<>>
    /\ log_file' = FALSE
    /\ current' = ""
    /\ selVia' = ""
    /\ cursor' = 0
    /\ attempts' = 0
    /\ UNCHANGED <<selector, allow_repeated_speaker, error>>

\* run(), lines 183-185: the team raised, the exception leaves run()
RunRaise ==
    /\ pc = "loop"
    /\ loopState = "FAILED"
    /\ runs' = Append(runs, [task |-> task, log_file |-> log_file, ok |-> FALSE])
    /\ raised' = Surfaced(error)
    /\ pc' = "idle"
    /\ loopState' = "NONE"
    /\ history' = <<>>
    /\ task' = <<>>
    /\ full_task' = <<>>
    /\ log_file' = FALSE
    /\ current' = ""
    /\ selVia' = ""
    /\ cursor' = 0
    /\ attempts' = 0
    /\ error' = "none"
    /\ UNCHANGED <<log_exists, log_text, selector, allow_repeated_speaker>>

Next ==
    \/ StartRun
    \/ Seed
    \/ SelectRoundRobin
    \/ SelectAttempt
    \/ ActOk
    \/ ActFail
    \/ Check
    \/ RunReturn
    \/ RunRaise

Spec == Init /\ [][Next]_vars

(* ---------------- the termination policy on its own ------------------- *)

PolicySpeakers == {"user", "verification_assistant"}

PolicyContents ==
    { <<"A">>,
      <<"d", "r", "a", "f", "t">>,
      <<"t", "e", "r", "m", "i", "n", "a", "t", "e">>,
      <<"T", "E", "R", "M", "I", "N", "A", "T">>,
      <<"T", "E", "R", "M", "I", "N", "A", "T", "E">>,
      <<"o", "k", " ", "T", "E", "R", "M", "I", "N", "A", "T", "E", ".">> }

PolicyMessages == [speaker : PolicySpeakers, content : PolicyContents]

\* the loop in CHECKING with any History of up to MaxPolicyLen Messages
PolicyInit ==
    /\ log_exists = FALSE
    /\ log_text = <<>>
    /\ pc = "loop"
    /\ task = <<"A">>
    /\ log_file = FALSE
    /\ full_task = <<"A">>
    /\ selector = "RoundRobin"
    /\ allow_repeated_speaker = TRUE
    /\ loopState = "CHECKING"
    /\ \E n \in 0..MaxPolicyLen : history \in [1..n -> PolicyMessages]
    /\ cursor = 0
    /\ current = ""
    /\ attempts = 0
    /\ selVia = ""
    /\ error = "none"
    /\ raised = "none"
    /\ runs = <<>>

PolicySpec == PolicyInit /\ [][Check]_vars

(* ------------------- runs followed without a bound -------------------- *)

\* The loop's transitions read the last Message and the cursor only.  Once
\* TurnCap responses are held, the oldest response is dropped from the
\* model's copy of History so that a run of any length can be followed.
Forget ==
    /\ loopState = "SELECTING"
    /\ Turns = TurnCap
    /\ history' = <<history[1]>> \o SubSeq(history, 3, Len(history))
    /\ UNCHANGED <<log_exists, log_text, pc, task, log_file, full_task, selector,
                   allow_repeated_speaker, loopState, cursor, current, attempts,
                   selVia, error, raised, runs>>

StartLiveRun == StartRunUpTo(MaxLiveRuns)

LiveNext ==
    \/ StartLiveRun
    \/ Seed
    \/ SelectRoundRobin
    \/ SelectAttempt
    \/ ActOk
    \/ ActFail
    \/ Check
    \/ RunReturn
    \/ RunRaise
    \/ Forget

\* run() awaits the team: a step that can be taken is taken
LiveSpec == Init /\ [][LiveNext]_vars /\ WF_vars(LiveNext)

(* ============================== claims ================================ *)

\* the token TERMINATE occurs in s, compared character by character
HasTERMINATE(s) ==
    \E i \in 1..(Len(s) - 8) :
        /\ s[i] = "T" /\ s[i + 1] = "E" /\ s[i + 2] = "R"
        /\ s[i + 3] = "M" /\ s[i + 4] = "I" /\ s[i + 5] = "N"
        /\ s[i + 6] = "A" /\ s[i + 7] = "T" /\ s[i + 8] = "E"

LastContent(h) == h[Len(h)].content

Terminal == {"TERMINATED", "FAILED"}

ExpectedOrder ==
    <<"test_writing_assistant", "verification_assistant", "summary_agent">>

\* two runs with the log file returned, task A then task B, and a third run
\* with the log file and task C has seeded its History
AfterAThenB ==
    /\ runs = << [task |-> <<"A">>, log_file |-> TRUE, ok |-> TRUE],
                 [task |-> <<"B">>, log_file |-> TRUE, ok |-> TRUE] >>
    /\ pc = "loop"
    /\ log_file
    /\ task = <<"C">>
    /\ loopState = "SELECTING"
    /\ Len(history) = 1

\* C1 as stated: after completed runs with tasks A and B on one log file, a
\* third run with task C seeds the conversation with "A\n\nB\n\nC".
C1_Original ==
    AfterAThenB => history[1].content = <<"A", NL, NL, "B", NL, NL, "C">>

\* C1 amended: the seed is "A\nB\n\nC": the logged tasks are one per line, and
\* only the new task is set off by a blank line, coming last.
C1_Amended ==
    AfterAThenB => history[1].content = <<"A", NL, "B", NL, NL, "C">>

C1_Witness == AfterAThenB /\ history[1].content = <<"A", NL, "B", NL, NL, "C">>

\* C2: the termination policy stops the loop iff History is non-empty and the
\* content of its last Message contains TERMINATE, case-sensitively; earlier
\* Messages do not matter.
C2_ShouldStop ==
    [][ loopState = "CHECKING" =>
            ( (loopState' = "TERMINATED")
                <=> (history # <<>> /\ HasTERMINATE(LastContent(history))) )
      ]_vars

\* a History whose first Message holds the token and whose last lacks it was
\* evaluated, and the loop went on
C2_Witness ==
    /\ loopState = "SELECTING"
    /\ Len(history) = 2
    /\ HasTERMINATE(history[1].content)
    /\ history[2].content = <<"t", "e", "r", "m", "i", "n", "a", "t", "e">>

\* C3: one participant acts per turn, History grows by exactly the selected
\* participant's Message per turn and is otherwise untouched during a run
\* (length = 1 seed + completed turns), and the loop is terminal only if the
\* policy holds on the current History or an error occurred.
C3_OneMessagePerTurn ==
    /\ [](loopState \in {"SELECTING", "ACTING", "CHECKING"} \cup Terminal =>
            /\ Len(history) >= 1
            /\ history[1] = [speaker |-> "user", content |-> full_task])
    /\ [](loopState = "SELECTING" => cursor = (Len(history) - 1) % 3)
    /\ [](loopState = "CHECKING" => cursor = (Len(history) - 2) % 3)
    /\ [](loopState = "TERMINATED" =>
            error = "none" /\ HasTERMINATE(LastContent(history)))
    /\ [](loopState = "FAILED" => error # "none")
    /\ [][ \/ history' = history
           \/ /\ loopState = "INIT" /\ history = <<>> /\ Len(history') = 1
           \/ /\ loopState \in Terminal /\ loopState' = "NONE" /\ history' = <<>>
           \/ /\ pc = "idle" /\ history = <<>> /\ history' = <<>>
           \/ /\ loopState = "ACTING" /\ loopState' = "CHECKING"
              /\ Len(history') = Len(history) + 1
              /\ SubSeq(history', 1, Len(history)) = history
              /\ history'[Len(history')].speaker = current
              /\ current \in {ExpectedOrder[i] : i \in 1..3}
       ]_vars
    /\ [][ loopState' = "CHECKING" =>
              loopState = "ACTING" /\ Len(history') = Len(history) + 1 ]_vars

C3_Witness ==
    /\ loopState = "TERMINATED"
    /\ Len(history) = 5

\* C4: under round-robin the loop halts right after the first turn whose
\* Message contains TERMINATE and takes no further turn; if the first
\* participant's Message lacks it and the second's contains it, the loop
\* ends TERMINATED after 2 turns with History length 3 and the third
\* participant never acts.
C4_HaltsAtFirstSentinel ==
    /\ [](selector = "RoundRobin" /\ loopState # "NONE" =>
            /\ \A i \in 2..Len(history) :
                  HasTERMINATE(history[i].content) =>
                      i = Len(history) /\ loopState \in {"CHECKING", "TERMINATED"}
            /\ (Len(history) >= 3 /\ HasTERMINATE(history[3].content) =>
                  /\ Len(history) = 3
                  /\ history[2].speaker = "test_writing_assistant"
                  /\ history[3].speaker = "verification_assistant"
                  /\ \A i \in 1..3 : history[i].speaker # "summary_agent"))
    /\ [][ loopState = "TERMINATED" =>
              loopState' = "NONE" /\ pc' = "idle" ]_vars
    /\ [][ loopState = "CHECKING" /\ HasTERMINATE(LastContent(history)) =>
              loopState' = "TERMINATED" /\ history' = history ]_vars

C4_Witness ==
    /\ selector = "RoundRobin"
    /\ loopState = "TERMINATED"
    /\ Len(history) = 3
    /\ ~HasTERMINATE(history[2].content)
    /\ HasTERMINATE(history[3].content)

\* C5: a failing act moves the loop to FAILED with History as it was before
\* the turn (only the seed on turn 1), nothing is retried, and run() raises
\* the same error.
C5_FailedAct ==
    /\ [][ loopState = "ACTING" /\ loopState' = "FAILED" =>
              /\ history' = history
              /\ error' \in Errors
              /\ (cursor = 0 /\ Len(history) = 1 =>
                    history' = <<[speaker |-> "user", content |-> full_task]>>) ]_vars
    /\ [][ loopState = "FAILED" =>
              /\ loopState' = "NONE"
              /\ pc' = "idle"
              /\ raised' = error
              /\ runs' = Append(runs, [task |-> task, log_file |-> log_file,
                                        ok |-> FALSE]) ]_vars
    /\ [][ loopState' = "FAILED" => loopState = "ACTING" ]_vars

C5_Witness ==
    /\ pc = "idle"
    /\ raised = "BackendUnreachable"
    /\ runs # <<>>
    /\ ~runs[Len(runs)].ok

\* C6: with the repeated-speaker restriction off, the k-th selection of the
\* round-robin selector is participant ((k - 1) mod 3) + 1 of the team as
\* built, so six selections name each participant twice, in order.
C6_RoundRobinOrder ==
    (selector = "RoundRobin" /\ allow_repeated_speaker) =>
        /\ \A i \in 2..Len(history) :
              history[i].speaker = ExpectedOrder[((i - 2) % 3) + 1]
        /\ (loopState = "ACTING" =>
              current = ExpectedOrder[((Len(history) - 1) % 3) + 1])
        /\ (loopState = "SELECTING" => cursor = (Len(history) - 1) % 3)

C6_Witness ==
    /\ selector = "RoundRobin"
    /\ allow_repeated_speaker
    /\ Len(history) = 7
    /\ \A p \in {ExpectedOrder[i] : i \in 1..3} :
          Cardinality({i \in 2..7 : history[i].speaker = p}) = 2

\* C7: when every reply of the selector's backend is outside the roster, the
\* content-driven selector gives up after exactly 3 attempts and selects the
\* participant at the round-robin cursor; selection never fails the run.
C7_SelectorFallback ==
    /\ [](selector = "Selector" =>
            /\ attempts <= 3
            /\ (loopState = "SELECTING" => attempts < 3)
            /\ (attempts = 3 => selVia = "fallback")
            /\ (selVia = "fallback" =>
                  /\ attempts = 3
                  /\ current = ExpectedOrder[cursor + 1]
                  /\ loopState \in {"ACTING", "CHECKING"} \cup Terminal)
            /\ (selVia = "backend" => attempts < 3))
    /\ [][ loopState = "SELECTING" => loopState' \in {"SELECTING", "ACTING"} ]_vars
    /\ [][ loopState = "SELECTING" /\ attempts' # attempts =>
              attempts' = attempts + 1 ]_vars

C7_Witness ==
    /\ selector = "Selector"
    /\ selVia = "fallback"
    /\ loopState = "CHECKING"
    /\ Len(history) = 3
    /\ history[3].speaker = "verification_assistant"

C9_Original == [](pc = "loop" => <>(loopState \in Terminal))

\* C9 amended: a run reaches TERMINATED once a Message contains TERMINATE and
\* FAILED once an act fails; while neither happens the loop is not terminal
\* and keeps selecting and acting, for any number of turns.
C9_Amended ==
    /\ [](loopState = "CHECKING" /\ HasTERMINATE(LastContent(history)) =>
            <>(loopState = "TERMINATED"))
    /\ [](loopState = "ACTING" => <>(loopState \in {"CHECKING", "FAILED"}))
    /\ [](loopState = "SELECTING" => <>(loopState = "ACTING"))
    /\ [](loopState = "CHECKING" /\ ~HasTERMINATE(LastContent(history)) =>
            <>(loopState = "SELECTING"))
    /\ [](loopState = "TERMINATED" => HasTERMINATE(LastContent(history)))
    /\ [](loopState = "FAILED" => error # "none")

\* a run that has completed TurnCap turns and is about to select again
C9_Witness ==
    /\ loopState = "SELECTING"
    /\ selector = "RoundRobin"
    /\ Turns = TurnCap
    /\ cursor = 1

\* C10: the log changes only when run() returns after TERMINATED with a log
\* file, and then by exactly the task and one newline at its end; a run that
\* ends FAILED, and every step of the loop, leave the log as it was.
C10_LogAppend ==
    [][ /\ (loopState = "TERMINATED" /\ log_file =>
              /\ log_exists'
              /\ log_text' = log_text \o task \o <<NL>>)
        /\ (~(loopState = "TERMINATED" /\ log_file) =>
              /\ log_exists' = log_exists
              /\ log_text' = log_text)
      ]_vars

C10_Witness ==
    /\ pc = "idle"
    /\ Len(runs) = 3
    /\ runs[1].ok /\ runs[1].log_file
    /\ ~runs[2].ok /\ runs[2].log_file
    /\ runs[3].ok /\ runs[3].log_file
    /\ log_text = runs[1].task \o <<NL>> \o runs[3].task \o <<NL>>

====
